---------------------------- MODULE Spec2Model ----------------------------
(* The train-archive service of app/app.py: the upload handler (index),   *)
(* the job table (TrainArchiveJob), the name normalization of create_job  *)
(* and the scheduler's stage processing (background_job / process_jobs).  *)
(* A filename is a sequence of one-character strings.                     *)
EXTENDS Integers, Sequences, FiniteSets, TLC

VARIABLES
    db,        \* the TrainArchiveJob table: db[id] = [job_directory, file_name, state]
    disk,      \* the files under TAR_FILEPATH: path -> sequence of archive entry names
    handlers,  \* handlers[id]: the index() request that created job id: [pc, filename, file]
    resp,      \* the response of the request that returned last
    pc,        \* the scheduler thread's position inside background_job
    rule,      \* index into the jobs list process_jobs iterates over
    job,       \* the local variable job of process_jobs (0: none)
    cand,      \* the ids that matched filter_by(state=from_state) when job was queried
    start,     \* start[id]: the state job id had when the running tick began
    raised,    \* raised[id]: the rule whose processor raised for job id (0: none)
    engine,    \* the calls received by the Docker engine, in order: [op, job, tag]
    invoked,   \* invoked[id][r]: how often rule r's processor was called with job id
    boot,      \* the process: [pc, socket, registry_key, status] (module-level code)
    raw,       \* the argument of the create_job call under study
    filename,  \* the local variable filename of create_job
    npc,       \* the position inside create_job
    names      \* the file_name values stored by the successive create_job calls

vars == << db, disk, handlers, resp, pc, rule, job, cand, start, raised, engine,
           invoked, boot, raw, filename, npc, names >>

pipeVars == << db, disk, handlers, resp, pc, rule, job, cand, start, raised, engine,
               invoked >>
normVars == << raw, filename, npc, names >>

--------------------------------------------------------------------------
(* Bounds *)

MaxJobs == 2

MaxNameLen == 3

--------------------------------------------------------------------------
(* Characters and strings *)

LowerChars == << "a","b","c","d","e","f","g","h","i","j","k","l","m",
                 "n","o","p","q","r","s","t","u","v","w","x","y","z" >>

UpperChars == << "A","B","C","D","E","F","G","H","I","J","K","L","M",
                 "N","O","P","Q","R","S","T","U","V","W","X","Y","Z" >>

DigitChars == << "0","1","2","3","4","5","6","7","8","9" >>

Range(s) == { s[i] : i \in DOMAIN s }

\* string.ascii_lowercase + string.digits + '_-'
allowed_characters == Range(LowerChars) \cup Range(DigitChars) \cup {"_", "-"}

\* werkzeug's _filename_ascii_strip_re keeps [A-Za-z0-9_.-]
SafeChars == Range(LowerChars) \cup Range(UpperChars) \cup Range(DigitChars)
                \cup {"_", ".", "-"}

StartsWith(s, p) == Len(s) >= Len(p) /\ SubSeq(s, 1, Len(p)) = p

EndsWith(s, p) == Len(s) >= Len(p) /\ SubSeq(s, Len(s) - Len(p) + 1, Len(s)) = p

\* str.lower() on one character
LowerChar(c) ==
    IF \E i \in DOMAIN UpperChars : UpperChars[i] = c
    THEN LowerChars[CHOOSE i \in DOMAIN UpperChars : UpperChars[i] = c]
    ELSE c

Lower(s) == [ i \in DOMAIN s |-> LowerChar(s[i]) ]

\* "_".join(s.split()): runs of whitespace between words become one "_",
\* leading and trailing whitespace disappears
RECURSIVE JoinWords(_, _, _)
JoinWords(s, i, out) ==
    IF i > Len(s) THEN out
    ELSE IF s[i] = " " THEN JoinWords(s, i + 1, out)
    ELSE IF i > 1 /\ s[i - 1] = " " /\ out # << >>
         THEN JoinWords(s, i + 1, Append(Append(out, "_"), s[i]))
         ELSE JoinWords(s, i + 1, Append(out, s[i]))

\* str.strip(chars)
RECURSIVE LStrip(_, _)
LStrip(s, chars) ==
    IF s # << >> /\ Head(s) \in chars THEN LStrip(Tail(s), chars) ELSE s

RECURSIVE RStrip(_, _)
RStrip(s, chars) ==
    IF s # << >> /\ s[Len(s)] \in chars
    THEN RStrip(SubSeq(s, 1, Len(s) - 1), chars) ELSE s

Strip(s, chars) == RStrip(LStrip(s, chars), chars)

\* werkzeug.utils.secure_filename on a POSIX host: path separators become
\* spaces, words are joined by "_", characters outside [A-Za-z0-9_.-] are
\* removed, leading and trailing "." and "_" are stripped
secure_filename(s) ==
    LET spaced == [ i \in DOMAIN s |-> IF s[i] = "/" THEN " " ELSE s[i] ]
        joined == JoinWords(spaced, 1, << >>)
        ascii  == SelectSeq(joined, LAMBDA c : c \in SafeChars)
    IN  Strip(ascii, {".", "_"})

\* create_job without the replacement of the problem characters
KeepProblemChars(s) == s

\* for p in problem_chars: filename = filename.replace(p, '_')
ReplaceProblemChars(s) ==
    [ i \in DOMAIN s |-> IF s[i] \in allowed_characters THEN s[i] ELSE "_" ]

\* if filename.endswith('_'): filename = filename + 's'
AppendS(s) == IF EndsWith(s, << "_" >>) THEN Append(s, "s") ELSE s

\* the index of the last "." of s (0: none)
LastDot(s) ==
    IF \E i \in DOMAIN s : s[i] = "."
    THEN CHOOSE i \in DOMAIN s : s[i] = "." /\ \A k \in DOMAIN s : s[k] = "." => k <= i
    ELSE 0

DotTar == << ".", "t", "a", "r" >>

\* if filename.endswith('.tar'): filename = '.'.join(filename.split('.')[:-1])
SplitTar(s) == IF EndsWith(s, DotTar) THEN SubSeq(s, 1, LastDot(s) - 1) ELSE s

TrainPrefix == << "t", "r", "a", "i", "n", "_" >>

\* if not filename.startswith("train_"): filename = "train_" + filename
PrefixTrain(s) == IF StartsWith(s, TrainPrefix) THEN s ELSE TrainPrefix \o s

\* the file_name create_job stores for an uploaded filename
CanonicalName(s) ==
    PrefixTrain(SplitTar(AppendS(ReplaceProblemChars(Lower(secure_filename(s))))))


--------------------------------------------------------------------------
(* The job table *)

\* class JobState(enum.Enum)
JOB_SUBMTTED == 0
TAR_SAVED == 1
DOCKERFILE_BEING_ADDED == 2
DOCKERFILE_ADDED == 3
TRAIN_BEING_CREATED == 4
TRAIN_SUBMITTED == 5

JobState == JOB_SUBMTTED .. TRAIN_SUBMITTED

TAR_FILEPATH == "/tmp/jobs"

URI_REGISTRY == "registry"

\* the ids of the rows of the table (the primary key counts up from 1)
Ids == DOMAIN db

\* to_filepath built from the job's file_name in place of its id
to_filepath_by_name(table, id) == << table[id].job_directory, table[id].file_name, ".tar" >>

\* TrainArchiveJob.to_filepath: job_directory/<id>.tar
to_filepath(table, id) == << table[id].job_directory, id, ".tar" >>

\* create_job storing the row as if the archive were already there
NewJobStateSaved == TAR_SAVED

\* the state a new row gets in create_job
NewJobState == JOB_SUBMTTED

\* create_job: normalize the name, add a row in JOB_SUBMTTED, commit
create_job(table, name) ==
    Append(table, [ job_directory |-> TAR_FILEPATH,
                    file_name     |-> CanonicalName(name),
                    state         |-> NewJobState ])

\* update_job_state that merges a job rebuilt from the uploaded name, so
\* that the stored file_name is prefixed once more
update_job_state_renaming(table, id, s) ==
    [ table EXCEPT ![id].state = s, ![id].file_name = TrainPrefix \o @ ]

\* update_job_state written as an UPDATE keyed on the old state, not the id
update_rows_in_state(table, id, s) ==
    [ r \in DOMAIN table |->
        IF table[r].state = table[id].state THEN [ table[r] EXCEPT !.state = s ]
        ELSE table[r] ]

\* update_job_state: set the row's state, merge, commit
update_job_state(table, id, s) == [ table EXCEPT ![id].state = s ]

\* the query without its filter_by: every row matches
filter_by_nothing(table, s) == DOMAIN table

\* query(TrainArchiveJob).filter_by(state=s): the matching ids
filter_by(table, s) == { id \in DOMAIN table : table[id].state = s }

\* .first() of a scan in descending primary-key order
first_desc(ids) ==
    IF ids = {} THEN 0 ELSE CHOOSE id \in ids : \A other \in ids : id >= other

\* .first() of the table scan: the matching row met first, in primary-key
\* order (0: None)
first(ids) ==
    IF ids = {} THEN 0 ELSE CHOOSE id \in ids : \A other \in ids : id <= other

--------------------------------------------------------------------------
(* The upload route *)

Name_a_tar == << "a", ".", "t", "a", "r" >>
Name_A_TAR == << "A", ".", "T", "A", "R" >>
Name_b_tar == << "b", ".", "t", "a", "r" >>
Name_a_txt == << "a", ".", "t", "x", "t" >>

\* the POST requests sent to the route: whether the 'file' part is there,
\* its filename and the entries of the archive it carries
Requests ==
    { [ has_file |-> TRUE,  filename |-> Name_a_tar, body |-> << "algorithm.py" >> ],
      [ has_file |-> TRUE,  filename |-> Name_A_TAR, body |-> << >> ],
      [ has_file |-> TRUE,  filename |-> Name_b_tar,
        body |-> << "Dockerfile", "algorithm.py" >> ],
      [ has_file |-> TRUE,  filename |-> Name_a_txt, body |-> << "algorithm.py" >> ],
      [ has_file |-> TRUE,  filename |-> << >>,      body |-> << >> ],
      [ has_file |-> FALSE, filename |-> << >>,      body |-> << >> ] }

\* allowed_file without the comparison of the extension
allowed_file_any_extension(name, ext) ==
    \E i \in DOMAIN name : name[i] = "."

\* utils.allowed_file
allowed_file(name, ext) ==
    /\ \E i \in DOMAIN name : name[i] = "."
    /\ Lower(SubSeq(name, LastDot(name) + 1, Len(name))) = ext

ExtTar == << "t", "a", "r" >>

\* the request passes every check of index() and reaches create_job; a
\* FileStorage is falsy exactly when its filename is empty
Accepted(req) ==
    /\ req.has_file
    /\ req.filename # << >>
    /\ allowed_file(req.filename, ExtTar)

\* the failure response of a request that does not
Rejection(req) ==
    IF ~req.has_file THEN "failure: field not submitted"
    ELSE "failure: no file selected or not a .tar file"

\* index(): one of the early returns
IndexReject(req) ==
    /\ ~Accepted(req)
    /\ resp' = Rejection(req)
    /\ UNCHANGED << db, disk, handlers, pc, rule, job, cand, start, raised, invoked, engine >>
    /\ UNCHANGED << normVars, boot >>

\* index(): job = create_job(file.filename)
IndexCreate(req) ==
    /\ Accepted(req)
    /\ Len(db) < MaxJobs
    /\ db' = create_job(db, req.filename)
    /\ handlers' = Append(handlers, [ pc |-> "save", filename |-> req.filename,
                                      file |-> req.body ])
    /\ UNCHANGED << disk, resp, pc, rule, job, cand, start, raised, invoked, engine >>
    /\ UNCHANGED << normVars, boot >>

\* a file written at a path
Write(files, path, entries) ==
    [ p \in DOMAIN files \cup {path} |-> IF p = path THEN entries ELSE files[p] ]

\* index(): file.save(job.to_filepath()) returns
IndexSave(id) ==
    /\ handlers[id].pc = "save"
    /\ disk' = Write(disk, to_filepath(db, id), handlers[id].file)
    /\ handlers' = [ handlers EXCEPT ![id].pc = "update" ]
    /\ UNCHANGED << db, resp, pc, rule, job, cand, start, raised, invoked, engine >>
    /\ UNCHANGED << normVars, boot >>

\* index(): file.save raises (no directory, disk full): the request ends
\* with an error and never reaches update_job_state
IndexSaveRaises(id) ==
    /\ handlers[id].pc = "save"
    /\ handlers' = [ handlers EXCEPT ![id].pc = "failed" ]
    /\ resp' = "error"
    /\ UNCHANGED << db, disk, pc, rule, job, cand, start, raised, invoked, engine >>
    /\ UNCHANGED << normVars, boot >>

\* index(): update_job_state(job, state=JobState.TAR_SAVED); return SUCCESS
IndexUpdate(id) ==
    /\ handlers[id].pc = "update"
    /\ db' = update_job_state(db, id, TAR_SAVED)
    /\ handlers' = [ handlers EXCEPT ![id].pc = "done" ]
    /\ resp' = "success"
    /\ UNCHANGED << disk, pc, rule, job, cand, start, raised, invoked, engine >>
    /\ UNCHANGED << normVars, boot >>

--------------------------------------------------------------------------
(* The scheduler: background_job and process_jobs *)

\* the list with the first rule's to_state taken from the second rule
jobs_skip ==
    << [ func |-> "func1", from_state |-> TAR_SAVED,
         while_state |-> DOCKERFILE_BEING_ADDED, to_state |-> TRAIN_BEING_CREATED ],
       [ func |-> "func2", from_state |-> DOCKERFILE_ADDED,
         while_state |-> TRAIN_BEING_CREATED, to_state |-> TRAIN_SUBMITTED ] >>

\* the list background_job hands to process_jobs
jobs ==
    << [ func |-> "func1", from_state |-> TAR_SAVED,
         while_state |-> DOCKERFILE_BEING_ADDED, to_state |-> DOCKERFILE_ADDED ],
       [ func |-> "func2", from_state |-> DOCKERFILE_ADDED,
         while_state |-> TRAIN_BEING_CREATED, to_state |-> TRAIN_SUBMITTED ] >>

\* the interval trigger starting a run of background_job whether or not the
\* previous run has returned
TickOverlapping ==
    /\ pc' = "query"
    /\ rule' = 1
    /\ start' = [ id \in Ids |-> db[id].state ]
    /\ UNCHANGED << db, disk, handlers, resp, job, cand, raised, invoked, engine >>
    /\ UNCHANGED << normVars, boot >>

\* the interval trigger fires and no run of background_job is active
\* (the scheduler keeps one instance of a job at a time)
Tick ==
    /\ pc = "idle"
    /\ pc' = "query"
    /\ rule' = 1
    /\ start' = [ id \in Ids |-> db[id].state ]
    /\ UNCHANGED << db, disk, handlers, resp, job, cand, raised, invoked, engine >>
    /\ UNCHANGED << normVars, boot >>

\* process_jobs: the for loop moves to the next job_item, or returns (the
\* locals of a finished rule are dead)
NextRule ==
    IF rule < Len(jobs)
    THEN pc' = "query" /\ rule' = rule + 1 /\ job' = 0 /\ cand' = {} /\ UNCHANGED start
    ELSE pc' = "idle" /\ rule' = 1 /\ job' = 0 /\ cand' = {} /\ start' = << >>

\* an except clause around func(job) that logs and goes on with the next rule
AbortContinue == NextRule

\* the exception leaves background_job: the run of the tick ends, the rules
\* after the current one are not evaluated
Abort == pc' = "idle" /\ rule' = 1 /\ job' = 0 /\ cand' = {} /\ start' = << >>

\* process_jobs: job = query.filter_by(state=from_state).first(), a job found
QueryFound ==
    /\ pc = "query"
    /\ first(filter_by(db, jobs[rule].from_state)) # 0
    /\ cand' = filter_by(db, jobs[rule].from_state)
    /\ job' = first(filter_by(db, jobs[rule].from_state))
    /\ pc' = "claim"
    /\ UNCHANGED << db, disk, handlers, resp, rule, start, raised, invoked, engine >>
    /\ UNCHANGED << normVars, boot >>

\* process_jobs: the query returns None, "if job:" is skipped
QueryNone ==
    /\ pc = "query"
    /\ first(filter_by(db, jobs[rule].from_state)) = 0
    /\ NextRule
    /\ UNCHANGED << db, disk, handlers, resp, raised, invoked, engine >>
    /\ UNCHANGED << normVars, boot >>

\* process_jobs: update_job_state(job, while_state)
Claim ==
    /\ pc = "claim"
    /\ db' = update_job_state(db, job, jobs[rule].while_state)
    /\ pc' = IF jobs[rule].func = "func1" THEN "func1" ELSE "build"
    /\ UNCHANGED << disk, handlers, resp, rule, job, cand, start, raised, invoked, engine >>
    /\ UNCHANGED << normVars, boot >>

\* tar.add on an archive opened with 'w', which truncates it
tar_write(entries) == << "Dockerfile" >>

\* tar.add(DOCKERFILE, arcname='Dockerfile') on an archive opened with 'a'
tar_add(entries) == Append(entries, "Dockerfile")

\* an except clause that puts the job back into the rule's from_state
Rollback(table, id, r) == update_job_state(table, id, jobs[r].from_state)

\* an exception leaves process_jobs and background_job: the statements after
\* func(job) are not run, the table keeps what was committed
Propagate(table, id, r) == table

\* func1 returns: the Dockerfile is in the archive
Func1 ==
    /\ pc = "func1"
    /\ to_filepath(db, job) \in DOMAIN disk
    /\ disk' = Write(disk, to_filepath(db, job), tar_add(disk[to_filepath(db, job)]))
    /\ pc' = "finish"
    /\ invoked' = [ invoked EXCEPT ![job][rule] = @ + 1 ]
    /\ UNCHANGED << db, handlers, resp, rule, job, cand, start, raised, engine >>
    /\ UNCHANGED << normVars, boot >>

\* func1 raises (no archive at the path, not a tar archive, no Dockerfile in
\* the instance path, an I/O error before or after the member was written)
Func1Raises ==
    /\ pc = "func1"
    /\ \/ UNCHANGED disk
       \/ /\ to_filepath(db, job) \in DOMAIN disk
          /\ disk' = Write(disk, to_filepath(db, job),
                           tar_add(disk[to_filepath(db, job)]))
    /\ db' = Propagate(db, job, rule)
    /\ raised' = [ raised EXCEPT ![job] = rule ]
    /\ Abort
    /\ invoked' = [ invoked EXCEPT ![job][rule] = @ + 1 ]
    /\ UNCHANGED << handlers, resp, engine >>
    /\ UNCHANGED << normVars, boot >>

\* the repository formatted with the engine's default tag
repository_latest(table, id) == << URI_REGISTRY, "/", table[id].file_name, ":", "latest" >>

\* repository = '{}/{}:immediate'.format(URI_REGISTRY, job.file_name)
repository(table, id) == << URI_REGISTRY, "/", table[id].file_name, ":", "immediate" >>

\* func2: docker_client.images.build(fileobj=f, custom_context=True, tag=repository)
\* returns
Build ==
    /\ pc = "build"
    /\ to_filepath(db, job) \in DOMAIN disk
    /\ engine' = Append(engine, [ op |-> "build", job |-> job,
                                  tag |-> repository(db, job), ok |-> TRUE ])
    /\ pc' = "push"
    /\ invoked' = [ invoked EXCEPT ![job][rule] = @ + 1 ]
    /\ UNCHANGED << db, disk, handlers, resp, rule, job, cand, start, raised >>
    /\ UNCHANGED << normVars, boot >>

\* func2: open() raises, or the build is requested and fails
BuildRaises ==
    /\ pc = "build"
    /\ \/ UNCHANGED engine
       \/ /\ to_filepath(db, job) \in DOMAIN disk
          /\ engine' = Append(engine, [ op |-> "build", job |-> job,
                                        tag |-> repository(db, job), ok |-> FALSE ])
    /\ db' = Propagate(db, job, rule)
    /\ raised' = [ raised EXCEPT ![job] = rule ]
    /\ Abort
    /\ invoked' = [ invoked EXCEPT ![job][rule] = @ + 1 ]
    /\ UNCHANGED << disk, handlers, resp >>
    /\ UNCHANGED << normVars, boot >>

\* func2: docker_client.images.push(repository) returns
Push ==
    /\ pc = "push"
    /\ engine' = Append(engine, [ op |-> "push", job |-> job,
                                  tag |-> repository(db, job), ok |-> TRUE ])
    /\ pc' = "finish"
    /\ UNCHANGED << db, disk, handlers, resp, rule, job, cand, start, raised, invoked >>
    /\ UNCHANGED << normVars, boot >>

\* func2: docker_client.images.push(repository) raises
PushRaises ==
    /\ pc = "push"
    /\ engine' = Append(engine, [ op |-> "push", job |-> job,
                                  tag |-> repository(db, job), ok |-> FALSE ])
    /\ db' = Propagate(db, job, rule)
    /\ raised' = [ raised EXCEPT ![job] = rule ]
    /\ Abort
    /\ UNCHANGED invoked
    /\ UNCHANGED << disk, handlers, resp >>
    /\ UNCHANGED << normVars, boot >>

\* process_jobs: update_job_state(job, to_state), then the next job_item
Finish ==
    /\ pc = "finish"
    /\ db' = update_job_state(db, job, jobs[rule].to_state)
    /\ NextRule
    /\ UNCHANGED << disk, handlers, resp, raised, invoked, engine >>
    /\ UNCHANGED << normVars, boot >>

--------------------------------------------------------------------------
(* create_job's normalization, statement by statement *)

Name_MyTrain == << "M", "y", " ", "T", "r", "a", "i", "n", "!", "!", ".", "t", "a", "r" >>
Name_train_my_train == << "t", "r", "a", "i", "n", "_", "m", "y", "_", "t", "r", "a", "i", "n" >>

\* the characters the enumerated filenames are made of: a lowercase and an
\* uppercase letter, the two separators kept, the dot, a character that is
\* removed, whitespace and a path separator
NameChars == { "a", "T", "_", "-", ".", "!", " ", "/" }

\* how often create_job is applied to its own result
MaxCalls == 2

ShortNames == UNION { [ 1 .. n -> NameChars ] : n \in 0 .. MaxNameLen }

Filenames == ShortNames \cup { Name_MyTrain, Name_a_tar, Name_A_TAR, TrainPrefix,
                               TrainPrefix \o Name_a_tar }

NSecure ==
    /\ npc = "secure"
    /\ filename' = secure_filename(filename)
    /\ npc' = "lower"
    /\ UNCHANGED << raw, names >> /\ UNCHANGED << pipeVars, boot >>

NLower ==
    /\ npc = "lower"
    /\ filename' = Lower(filename)
    /\ npc' = "replace"
    /\ UNCHANGED << raw, names >> /\ UNCHANGED << pipeVars, boot >>

NReplace ==
    /\ npc = "replace"
    /\ filename' = ReplaceProblemChars(filename)
    /\ npc' = "append_s"
    /\ UNCHANGED << raw, names >> /\ UNCHANGED << pipeVars, boot >>

NAppendS ==
    /\ npc = "append_s"
    /\ filename' = AppendS(filename)
    /\ npc' = "split_tar"
    /\ UNCHANGED << raw, names >> /\ UNCHANGED << pipeVars, boot >>

NSplitTar ==
    /\ npc = "split_tar"
    /\ filename' = SplitTar(filename)
    /\ npc' = "prefix"
    /\ UNCHANGED << raw, names >> /\ UNCHANGED << pipeVars, boot >>

\* the prefix is added and the row is stored with file_name=filename
NPrefix ==
    /\ npc = "prefix"
    /\ filename' = PrefixTrain(filename)
    /\ names' = Append(names, PrefixTrain(filename))
    /\ npc' = "stored"
    /\ UNCHANGED raw /\ UNCHANGED << pipeVars, boot >>

\* the stored file_name is submitted as a filename again
NResubmit ==
    /\ npc = "stored"
    /\ Len(names) < MaxCalls
    /\ filename' = names[Len(names)]
    /\ npc' = "secure"
    /\ UNCHANGED << raw, names >> /\ UNCHANGED << pipeVars, boot >>

--------------------------------------------------------------------------
(* Specifications *)

PipeInit ==
    /\ db = << >>
    /\ disk = << >>
    /\ handlers = << >>
    /\ resp = "none"
    /\ pc = "idle"
    /\ rule = 1
    /\ job = 0
    /\ cand = {}
    /\ start = << >>
    /\ raised = [ id \in 1 .. MaxJobs |-> 0 ]
    /\ engine = << >>
    /\ invoked = [ id \in 1 .. MaxJobs |-> [ r \in DOMAIN jobs |-> 0 ] ]

\* the process after its module-level code ran with the Docker socket and
\* the registry key in place
Running == [ pc |-> "running", socket |-> TRUE, registry_key |-> TRUE, status |-> 0 ]

Init ==
    /\ PipeInit
    /\ boot = Running
    /\ raw = << >> /\ filename = << >> /\ npc = "idle" /\ names = << >>

Next ==
    \/ \E req \in Requests : IndexReject(req)
    \/ \E req \in Requests : IndexCreate(req)
    \/ \E id \in Ids : IndexSave(id)
    \/ \E id \in Ids : IndexSaveRaises(id)
    \/ \E id \in Ids : IndexUpdate(id)
    \/ Tick
    \/ QueryFound
    \/ QueryNone
    \/ Claim
    \/ Func1
    \/ Func1Raises
    \/ Build
    \/ BuildRaises
    \/ Push
    \/ PushRaises
    \/ Finish

Spec == Init /\ [][Next]_vars

\* create_job applied to each filename of Filenames, then to its own result
NormInit ==
    /\ PipeInit
    /\ boot = Running
    /\ raw \in Filenames /\ filename = raw /\ npc = "secure" /\ names = << >>

\* a step of the scheduler thread in a run in which no processor raises
SchedulerNext ==
    \/ Tick
    \/ QueryFound
    \/ QueryNone
    \/ Claim
    \/ Func1
    \/ Build
    \/ Push
    \/ Finish

\* requests arrive as they like; the interval trigger keeps firing and the
\* scheduler thread keeps running, every processor call returning
LiveNext ==
    \/ \E req \in Requests : IndexReject(req)
    \/ \E req \in Requests : IndexCreate(req)
    \/ \E id \in Ids : IndexSave(id)
    \/ \E id \in Ids : IndexSaveRaises(id)
    \/ \E id \in Ids : IndexUpdate(id)
    \/ SchedulerNext

LiveSpec == Init /\ [][LiveNext]_vars /\ WF_vars(SchedulerNext)

\* utils.fatal_if without its sys.exit: the message is printed and the
\* module-level code goes on
fatal_if_print_only(b, test, status, next) == [ b EXCEPT !.pc = next ]

\* utils.fatal_if: when test holds the process exits with status, otherwise
\* the module-level code goes on at next
fatal_if(b, test, status, next) ==
    IF test THEN [ b EXCEPT !.pc = "exited", !.status = status ]
            ELSE [ b EXCEPT !.pc = next ]

\* fatal_if(not os.path.exists(DOCKER_SOCKET_PATH), ..., 1)
CheckSocket ==
    /\ boot.pc = "check_socket"
    /\ boot' = fatal_if(boot, ~boot.socket, 1, "check_registry")
    /\ UNCHANGED << pipeVars, normVars >>

\* fatal_if(not URI_REGISTRY_KEY in os.environ, ..., 2)
CheckRegistry ==
    /\ boot.pc = "check_registry"
    /\ boot' = fatal_if(boot, ~boot.registry_key, 2, "setup")
    /\ UNCHANGED << pipeVars, normVars >>

\* the rest of the module-level code: the app and the empty in-memory
\* database are created, the scheduler is started with background_job, the
\* app runs
Setup ==
    /\ boot.pc = "setup"
    /\ boot' = [ boot EXCEPT !.pc = "running" ]
    /\ UNCHANGED << pipeVars, normVars >>

\* the process is started with or without the Docker socket and with or
\* without URI_DOCKER_REGISTRY in its environment
BootInit ==
    /\ PipeInit
    /\ raw = << >> /\ filename = << >> /\ npc = "idle" /\ names = << >>
    /\ boot \in { [ pc |-> "check_socket", socket |-> s, registry_key |-> k, status |-> 0 ] :
                     s \in BOOLEAN, k \in BOOLEAN }

\* requests are served and ticks fire only once the module-level code ran
BootNext ==
    \/ CheckSocket
    \/ CheckRegistry
    \/ Setup
    \/ (boot.pc = "running" /\ Next)

BootSpec == BootInit /\ [][BootNext]_vars

NormNext ==
    \/ NSecure
    \/ NLower
    \/ NReplace
    \/ NAppendS
    \/ NSplitTar
    \/ NPrefix
    \/ NResubmit

NormSpec == NormInit /\ [][NormNext]_vars

TypeOK ==
    /\ \A id \in Ids : db[id].state \in JobState
    /\ Len(handlers) = Len(db)
    /\ pc \in { "idle", "query", "claim", "func1", "build", "push", "finish" }
    /\ rule \in DOMAIN jobs
    /\ job \in Ids \cup {0}

--------------------------------------------------------------------------
(* Properties *)

\* the scheduler is inside the body of "if job:" for the job it selected
Processing == pc \in { "claim", "func1", "build", "push", "finish" }

\* C1: in every step, every job keeps its state or moves to the immediate
\* successor in the JobState order, and a new job starts in JOB_SUBMTTED:
\* no state is skipped, none is revisited.
C1_StateAdvancesByOne ==
    [][ /\ \A id \in Ids :
              \/ db'[id].state = db[id].state
              \/ db'[id].state = db[id].state + 1
        /\ \A id \in DOMAIN db' \ Ids : db'[id].state = JOB_SUBMTTED ]_vars

\* C1 witness: one job went through the whole sequence while the processor
\* of another one raised.
C1_Witness ==
    \E a, b \in Ids : db[a].state = TRAIN_SUBMITTED /\ raised[b] # 0

\* C2: a job whose processor raised is in that rule's while_state in every
\* later state and is not the job the scheduler has selected.
C2_FailedJobStaysInFlight ==
    \A id \in Ids :
        raised[id] # 0 =>
            /\ db[id].state = jobs[raised[id]].while_state
            /\ job # id

\* C2 witness: func1 raised for a job, and a job uploaded later has since
\* been taken through both rules by later ticks.
C2_Witness ==
    \E a, b \in Ids : a < b /\ raised[a] = 1 /\ db[b].state = TRAIN_SUBMITTED

\* C3: the job a rule selected has the smallest id of the jobs that were in
\* its from_state, and while the rule works on it the other ones keep that
\* state.
C3_SmallestIdFirst ==
    Processing =>
        /\ job \in cand
        /\ \A other \in cand : job <= other
        /\ \A other \in cand \ {job} : db[other].state = jobs[rule].from_state

\* C3 witness: a rule found two jobs in its from_state and has run the
\* processor on the one it selected.
C3_Witness == pc = "finish" /\ Cardinality(cand) >= 2

\* C4 as claimed: at most one job is in DOCKERFILE_BEING_ADDED and at most
\* one is in TRAIN_BEING_CREATED, in every reachable state.
C4_OneJobInFlightPerStage ==
    \A r \in DOMAIN jobs : Cardinality(filter_by(db, jobs[r].while_state)) <= 1

\* the jobs that were in rule r's from_state when the tick began and are not
\* any more
MovedOut(r) ==
    { id \in DOMAIN start :
        start[id] = jobs[r].from_state /\ db[id].state # jobs[r].from_state }

\* C5: during a tick at most one of the jobs that were in TAR_SAVED, and at
\* most one of those that were in DOCKERFILE_ADDED, has left that state, and
\* of the jobs a rule found in its from_state at most one has left it.
C5_OneJobPerRulePerTick ==
    /\ \A r \in DOMAIN jobs : Cardinality(MovedOut(r)) <= 1
    /\ Cardinality({ id \in cand : db[id].state # jobs[rule].from_state }) <= 1

\* C5 witness: a tick that began with two jobs in TAR_SAVED has finished the
\* first rule for one of them.
C5_Witness ==
    /\ pc = "query" /\ rule = 2
    /\ Cardinality({ id \in DOMAIN start : start[id] = TAR_SAVED }) >= 2
    /\ Cardinality(MovedOut(1)) = 1

\* C6 as claimed: create_job applied to a name it stored stores the same
\* name again, whatever the first filename was.
C6_NormalizationIdempotent ==
    \A i \in 1 .. Len(names) - 1 : names[i + 1] = names[i]

\* C7 as claimed, on its example: create_job("My Train!!.tar") stores
\* train_my_train, the name without the .tar suffix.
C7_TarSuffixRemoved ==
    (raw = Name_MyTrain /\ Len(names) >= 1) => names[1] = Name_train_my_train

\* the request that created job id has written the archive at to_filepath()
SaveCompleted(id) == handlers[id].pc \in { "update", "done" }

\* C8: a job in TAR_SAVED or later has its archive saved at to_filepath(); a
\* job whose save has not completed or has failed is in JOB_SUBMTTED and is
\* not the job a rule selected; a processor only runs on a saved archive.
C8_TarSavedOnlyAfterSave ==
    /\ \A id \in Ids :
          /\ db[id].state >= TAR_SAVED =>
                SaveCompleted(id) /\ to_filepath(db, id) \in DOMAIN disk
          /\ ~SaveCompleted(id) =>
                db[id].state = JOB_SUBMTTED /\ job # id /\ id \notin cand
    /\ Processing => SaveCompleted(job) /\ to_filepath(db, job) \in DOMAIN disk

\* C8 witness: func1 is about to open the archive of one job while the
\* upload of an older job is still being saved.
C8_Witness ==
    /\ pc = "func1"
    /\ \E id \in Ids : id < job /\ handlers[id].pc = "save"

\* the calls the engine received for job id, in order
CallsFor(id) == SelectSeq(engine, LAMBDA c : c.job = id)

\* C9: for a job in TRAIN_SUBMITTED the engine received exactly one build and
\* then one push, both tagged URI_REGISTRY/file_name:immediate; a push is
\* only ever received after a successful build for the same job.
C9_BuildThenPushOnce ==
    /\ \A id \in Ids :
          db[id].state = TRAIN_SUBMITTED =>
              LET calls == CallsFor(id)
                  tag   == << URI_REGISTRY, "/", db[id].file_name, ":", "immediate" >>
              IN  /\ Len(calls) = 2
                  /\ calls[1].op = "build" /\ calls[1].ok /\ calls[1].tag = tag
                  /\ calls[2].op = "push" /\ calls[2].tag = tag
    /\ \A i \in DOMAIN engine :
          engine[i].op = "push" =>
              \E k \in 1 .. i - 1 :
                  /\ engine[k].op = "build" /\ engine[k].ok
                  /\ engine[k].job = engine[i].job
    /\ \A i, k \in DOMAIN engine :
          engine[i].op = "build" /\ ~engine[i].ok /\ engine[k].job = engine[i].job
              => engine[k].op # "push"

\* C9 witness: one job was published and the build of another one failed.
C9_Witness ==
    /\ \E id \in Ids : db[id].state = TRAIN_SUBMITTED
    /\ \E i \in DOMAIN engine : engine[i].op = "build" /\ ~engine[i].ok

\* C10: once func1 has returned for a job, and in every later state of the
\* job, its archive holds the uploaded entries, unchanged and in their order,
\* followed by one entry named Dockerfile.
C10_DockerfileAppended ==
    \A id \in Ids :
        (db[id].state >= DOCKERFILE_ADDED \/ (pc = "finish" /\ rule = 1 /\ job = id))
        => /\ to_filepath(db, id) \in DOMAIN disk
           /\ disk[to_filepath(db, id)] = handlers[id].file \o << "Dockerfile" >>
           /\ Len(disk[to_filepath(db, id)]) = Len(handlers[id].file) + 1

\* C10 witness: a job uploaded with two entries, one of them already named
\* Dockerfile, is in DOCKERFILE_ADDED.
C10_Witness ==
    \E id \in Ids : db[id].state = DOCKERFILE_ADDED /\ Len(handlers[id].file) = 2

\* the tags of the pushes the engine received for job id
PushTags(id) == { engine[i].tag : i \in { k \in DOMAIN engine :
                                            engine[k].op = "push" /\ engine[k].job = id } }

\* C11: two jobs whose uploads normalized to the same file_name are two rows
\* with different archive paths, each archive holds what its own request
\* uploaded (followed by nothing but the Dockerfile func1 added), the state
\* of each is its own, and whatever was pushed for them was pushed under one
\* and the same tag.
C11_SameNameSeparateJobs ==
    \A a, b \in Ids :
        (a # b /\ db[a].file_name = db[b].file_name) =>
            /\ to_filepath(db, a) # to_filepath(db, b)
            /\ \A id \in {a, b} :
                  to_filepath(db, id) \in DOMAIN disk =>
                      disk[to_filepath(db, id)] \in
                          { handlers[id].file, handlers[id].file \o << "Dockerfile" >> }
            /\ \A s \in PushTags(a), t \in PushTags(b) : s = t
            /\ \A s \in PushTags(a) \cup PushTags(b) :
                  s = << URI_REGISTRY, "/", db[a].file_name, ":", "immediate" >>

\* C11 witness: two different filenames were uploaded, both jobs carry the
\* same file_name, and both were published under the same tag.
C11_Witness ==
    \E a, b \in Ids :
        /\ a # b
        /\ handlers[a].filename # handlers[b].filename
        /\ db[a].file_name = db[b].file_name
        /\ db[a].state = TRAIN_SUBMITTED /\ db[b].state = TRAIN_SUBMITTED
        /\ PushTags(a) # {} /\ PushTags(a) = PushTags(b)

\* a step of the scheduler thread (a request handler never moves it)
SchedulerStep == pc' # pc \/ rule' # rule

\* C12: a rule whose query finds no job in its from_state changes no row,
\* no archive and calls no processor, and the loop goes on with the next
\* rule (or the tick ends after the last one); and the only row a step of
\* the scheduler ever changes is the job the running rule selected out of
\* its from_state, so rows in JOB_SUBMTTED or TRAIN_SUBMITTED, and rows left
\* in an in-flight state by an earlier tick, are never changed by a tick.
C12_NoJobNoEffect ==
    [][ SchedulerStep =>
          /\ (pc = "query" /\ \A id \in Ids : db[id].state # jobs[rule].from_state) =>
                /\ db' = db /\ disk' = disk /\ engine' = engine /\ invoked' = invoked
                /\ IF rule < Len(jobs) THEN pc' = "query" /\ rule' = rule + 1
                                       ELSE pc' = "idle"
          /\ \A id \in Ids :
                db'[id] # db[id] =>
                    /\ id = job /\ id \in cand /\ raised[id] = 0
                    /\ db[id].state \in { jobs[rule].from_state, jobs[rule].while_state }
                    /\ id \in DOMAIN start =>
                           start[id] \in { jobs[r].from_state : r \in 1 .. rule }
                                            \cup { JOB_SUBMTTED } ]_vars

\* C12 witness: in a tick the first rule found nothing, with one job still
\* in JOB_SUBMTTED and another one left in-flight by a processor that raised.
C12_Witness ==
    /\ pc = "query" /\ rule = 2
    /\ \A id \in DOMAIN start : start[id] # TAR_SAVED
    /\ \A id \in Ids : db[id].state \notin { TAR_SAVED, DOCKERFILE_ADDED }
    /\ \E id \in Ids : db[id].state = JOB_SUBMTTED
    /\ \E id \in Ids : raised[id] # 0

\* C13: no step changes the job_directory or the file_name of a row or the
\* path to_filepath() gives for it, a row is never removed or renumbered,
\* the directory is the one create_job stored, and a step that changes a
\* row's state leaves it with exactly one JobState value.
C13_OnlyStateChanges ==
    [][ \A id \in Ids :
          /\ id \in DOMAIN db'
          /\ db'[id].job_directory = db[id].job_directory
          /\ db'[id].job_directory = TAR_FILEPATH
          /\ db'[id].file_name = db[id].file_name
          /\ to_filepath(db', id) = to_filepath(db, id)
          /\ to_filepath(db', id) = << TAR_FILEPATH, id, ".tar" >>
          /\ db'[id].state \in JobState ]_vars

\* C13 witness: update_job_state was applied to a job five times and its
\* archive is at the path it was saved to.
C13_Witness ==
    \E id \in Ids :
        /\ db[id].state = TRAIN_SUBMITTED
        /\ to_filepath(db, id) \in DOMAIN disk
        /\ db[id].file_name = CanonicalName(handlers[id].filename)

\* C14: a process that exited did so with status 1 when the Docker socket
\* is missing and with status 2 when the socket is there and the registry
\* key is not; in both cases the process never gets past the failing check,
\* and as long as the module-level code has not run through there is no job
\* row, no archive, no handler, no engine call and no tick.
C14_PreflightFatal ==
    /\ boot.pc = "exited" =>
          \/ ~boot.socket /\ boot.status = 1
          \/ boot.socket /\ ~boot.registry_key /\ boot.status = 2
    /\ ~boot.socket => boot.pc \in { "check_socket", "exited" }
    /\ (boot.socket /\ ~boot.registry_key) =>
          boot.pc \in { "check_socket", "check_registry", "exited" }
    /\ boot.pc # "running" =>
          /\ db = << >> /\ disk = << >> /\ handlers = << >> /\ engine = << >>
          /\ pc = "idle" /\ start = << >>

\* C14 witness: the socket is there, the registry key is not, and the
\* process has exited with status 2.
C14_Witness ==
    boot.pc = "exited" /\ boot.socket /\ ~boot.registry_key /\ boot.status = 2

\* the scheduler thread is inside func1 or func2
ProcessorRunning == pc \in { "func1", "build", "push" }

\* C15: while a processor runs, the scheduler thread does nothing but go on
\* with that call: it stays in it, moves from build to push, returns to the
\* update of the to_state, or ends the tick because the processor raised. No
\* query is evaluated (rule, job and the query's result stay), no processor
\* is called for another job, and the only rows that change are rows a
\* request handler changes.
C15_ProcessorsSerialized ==
    [][ ProcessorRunning =>
          /\ pc' \in CASE pc = "func1" -> { "func1", "finish", "idle" }
                      [] pc = "build" -> { "build", "push", "idle" }
                      [] pc = "push"  -> { "push", "finish", "idle" }
          /\ pc' # "idle" => job' = job /\ rule' = rule /\ cand' = cand
          /\ pc' = "idle" => raised'[job] = rule /\ raised[job] = 0
          /\ \A id \in Ids :
                /\ db'[id] # db[id] => handlers'[id] # handlers[id]
                /\ id # job => invoked'[id] = invoked[id] ]_vars

\* C15 witness: func2 is building one job while a request handler has moved
\* another job into TAR_SAVED since the tick began.
C15_Witness ==
    /\ pc = "build"
    /\ \E id \in Ids :
          /\ id # job /\ db[id].state = TAR_SAVED
          /\ (id \in DOMAIN start => start[id] = JOB_SUBMTTED)

\* C16: func1 and func2 are each called at most once with a given job, and
\* a job a processor was called with has left that rule's from_state for
\* good.
C16_ProcessorOncePerJob ==
    \A id \in Ids : \A r \in DOMAIN jobs :
        /\ invoked[id][r] <= 1
        /\ invoked[id][r] = 1 => db[id].state >= jobs[r].while_state
        /\ db[id].state > jobs[r].while_state => invoked[id][r] = 1

\* C16 witness: a job went through func1 and func2 once each, and a later
\* tick is querying again with the job in TRAIN_SUBMITTED.
C16_Witness ==
    \E id \in Ids :
        /\ invoked[id][1] = 1 /\ invoked[id][2] = 1
        /\ pc = "query" /\ id \in DOMAIN start /\ start[id] = TRAIN_SUBMITTED

\* C17: every file_name create_job stores is non-empty, begins with train_
\* and is made of lowercase ASCII letters, digits, "_" and "-" only.
C17_CanonicalNameShape ==
    \A i \in DOMAIN names :
        /\ names[i] # << >>
        /\ Len(names[i]) >= 6
        /\ SubSeq(names[i], 1, 6) = << "t", "r", "a", "i", "n", "_" >>
        /\ \A k \in DOMAIN names[i] :
              names[i][k] \in Range(LowerChars) \cup Range(DigitChars) \cup { "_", "-" }

\* C17 witness: a filename with uppercase letters, whitespace, punctuation
\* and a dot has been stored.
C17_Witness == raw = Name_MyTrain /\ Len(names) >= 1 /\ names[1] # raw

\* C18: with ticks that keep occurring and processors that always return,
\* every job that is in TAR_SAVED is in TRAIN_SUBMITTED at some later point,
\* whatever requests arrive in between.
C18_SavedJobsGetSubmitted ==
    \A id \in 1 .. MaxJobs :
        (id \in Ids /\ db[id].state = TAR_SAVED)
            ~> (id \in Ids /\ db[id].state = TRAIN_SUBMITTED)

\* C18 witness: a job was published although a job with a smaller id was
\* saved later and is still waiting.
C18_Witness ==
    \E a, b \in Ids :
        a < b /\ db[b].state = TRAIN_SUBMITTED /\ db[a].state = TAR_SAVED

\* C19: the step in which the Dockerfile processor raises ends the tick and
\* changes no job that is in DOCKERFILE_ADDED, and the publish rule is only
\* ever entered by a step that records no raise.
C19_RaiseEndsTick ==
    [][ /\ (pc = "func1" /\ raised' # raised)
            => /\ pc' = "idle"
               /\ rule' = 1
               /\ engine' = engine
               /\ \A id \in Ids :
                      db[id].state = DOCKERFILE_ADDED => db'[id] = db[id]
        /\ (rule = 1 /\ rule' = 2) => raised' = raised ]_vars

\* C19 witness: the Dockerfile processor has raised for a job, the scheduler
\* is idle again and nothing was built or pushed in between.
C19_Witness ==
    /\ pc = "idle"
    /\ engine = << >>
    /\ \E id \in Ids :
           raised[id] = 1 /\ db[id].state = DOCKERFILE_BEING_ADDED

\* the filename has a dot and its last extension, lowercased, is "tar"
HasTarExtension(name) ==
    \E i \in DOMAIN name :
        /\ name[i] = "."
        /\ \A j \in (i + 1) .. Len(name) : name[j] # "."
        /\ Lower(SubSeq(name, i + 1, Len(name))) = << "t", "a", "r" >>

\* C20: a step whose response is a rejection adds no record and leaves
\* table, disk and open requests as they were; a step adds at most one
\* record, leaves the existing records alone when it does, and the record
\* it adds belongs to a request whose filename has the tar extension.
C20_RejectedUploadLeavesNoJob ==
    [][ /\ (resp' # resp /\ resp' \in { "failure: field not submitted",
                                       "failure: no file selected or not a .tar file" })
            => (db' = db /\ disk' = disk /\ handlers' = handlers)
        /\ Len(db') \in { Len(db), Len(db) + 1 }
        /\ Len(db') = Len(db) + 1
            => /\ SubSeq(db', 1, Len(db)) = db
               /\ Len(handlers') = Len(db')
               /\ HasTarExtension(handlers'[Len(db')].filename) ]_vars

\* C20 witness: a request was rejected after a job had been accepted and
\* the table holds exactly that one job.
C20_Witness ==
    /\ resp = "failure: no file selected or not a .tar file"
    /\ Len(db) = 1
    /\ handlers[1].filename = Name_A_TAR

==========================================================================
